---- MODULE Spec2Model ----
(***************************************************************************)
(* A model of TypeDoc's MarkedPlugin (the "marked" renderer component):    *)
(* parseMarkdown and its PARSE event dispatch, the markdown-it rule        *)
(* overrides installed by setupParser (heading_open, heading_close,        *)
(* link_open), the code-fence highlight option, getHighlighted, and the    *)
(* slugger lookup with its lazily created module-level fallback.           *)
(*                                                                         *)
(* Strings on which the code computes are sequences of one-character       *)
(* strings, so that lower-casing, regular-expression matching, escaping    *)
(* and concatenation are computed rather than assumed.                     *)
(***************************************************************************)
EXTENDS Integers, Sequences, FiniteSets, TLC

(* ------------------------------ bounds -------------------------------- *)
\* parseMarkdown calls started in one behaviour
MaxCalls == 2
\* markdown-it engines constructed (onBeginRenderer calls)
MaxEngines == 1
\* getHighlighted calls in one behaviour
MaxHighlightCalls == 2
\* length of the hrefs enumerated for the link_open rule
MaxHrefLen == 5
\* length of the fence contents enumerated for the highlight option
MaxCodeLen == 3

(* --------------------------- string helpers --------------------------- *)
UpperCase == <<"A","B","C","D","E","F","G","H","I","J","K","L","M",
               "N","O","P","Q","R","S","T","U","V","W","X","Y","Z">>
LowerCase == <<"a","b","c","d","e","f","g","h","i","j","k","l","m",
               "n","o","p","q","r","s","t","u","v","w","x","y","z">>
Digits == <<"0","1","2","3","4","5","6","7","8","9">>

Range(s) == {s[i] : i \in DOMAIN s}

\* String.prototype.toLowerCase on one character
ToLowerChar(c) ==
    IF \E i \in DOMAIN UpperCase : UpperCase[i] = c
    THEN LowerCase[CHOOSE i \in DOMAIN UpperCase : UpperCase[i] = c]
    ELSE c

\* String.prototype.toLowerCase
ToLowerCase(s) == [i \in DOMAIN s |-> ToLowerChar(s[i])]

StartsWith(s, p) == Len(s) >= Len(p) /\ SubSeq(s, 1, Len(p)) = p

\* the decimal representation a template literal gives a non-negative integer
RECURSIVE Decimal(_)
Decimal(n) == IF n < 10 THEN <<Digits[n + 1]>>
              ELSE Decimal(n \div 10) \o <<Digits[(n % 10) + 1]>>

\* number of "\n" characters a string ends with
RECURSIVE TrailingNewlines(_)
TrailingNewlines(s) ==
    IF Len(s) > 0 /\ s[Len(s)] = "\n"
    THEN 1 + TrailingNewlines(SubSeq(s, 1, Len(s) - 1))
    ELSE 0

IsPrefix(s, t) == Len(s) <= Len(t) /\ SubSeq(t, 1, Len(s)) = s

(* ------------------------------ Slugger ------------------------------- *)
(* The Slugger class lives in ./default/DefaultTheme, outside the files at *)
(* hand; it is modelled from its documented contract: lowercase, collapse  *)
(* whitespace runs to single hyphens, strip characters unsafe in a URL     *)
(* fragment, resolve collisions with the smallest unused -1, -2, ...       *)
(* suffix against the instance's set of already issued slugs.              *)
IsSpace(c) == c \in {" ", "\t", "\n"}

IsSlugSafe(c) ==
    \/ c \in Range(LowerCase)
    \/ c \in Range(Digits)
    \/ c \in {"-", "_"}

RECURSIVE CollapseSpaces(_)
CollapseSpaces(s) ==
    IF s = <<>> THEN <<>>
    ELSE IF IsSpace(s[1])
         THEN IF Len(s) > 1 /\ IsSpace(s[2])
              THEN CollapseSpaces(Tail(s))
              ELSE <<"-">> \o CollapseSpaces(Tail(s))
         ELSE <<s[1]>> \o CollapseSpaces(Tail(s))

StripUnsafe(s) == SelectSeq(s, IsSlugSafe)

\* the base slug of a heading text
Serialize(text) == StripUnsafe(CollapseSpaces(ToLowerCase(text)))

WithSuffix(base, k) == base \o <<"-">> \o Decimal(k)

\* Slugger.slug: seen is the set of slugs the instance has issued
SlugOf(seen, text) ==
    LET base == Serialize(text) IN
    IF base \notin seen THEN base
    ELSE LET free == {k \in 1..(Cardinality(seen) + 1) : WithSuffix(base, k) \notin seen}
         IN  WithSuffix(base, CHOOSE k \in free : \A j \in free : k <= j)

(* ------------------------- external capabilities ---------------------- *)
\* utils/html escapeHtml
EscapeChar(c) ==
    CASE c = "&" -> <<"&","a","m","p",";">>
      [] c = "<" -> <<"&","l","t",";">>
      [] c = ">" -> <<"&","g","t",";">>
      [] c = "\"" -> <<"&","q","u","o","t",";">>
      [] c = "'" -> <<"&","#","3","9",";">>
      [] OTHER -> <<c>>

RECURSIVE EscapeHtml(_)
EscapeHtml(s) == IF s = <<>> THEN <<>> ELSE EscapeChar(s[1]) \o EscapeHtml(Tail(s))

\* utils/html getTextContent: the text of an HTML/markdown fragment, tags removed
RECURSIVE GetTextContent(_)
GetTextContent(s) ==
    IF s = <<>> THEN <<>>
    ELSE IF s[1] = "<" /\ \E i \in 2..Len(s) : s[i] = ">"
         THEN LET close == CHOOSE i \in 2..Len(s) :
                               s[i] = ">" /\ \A j \in 2..(i - 1) : s[j] # ">"
              IN  GetTextContent(SubSeq(s, close + 1, Len(s)))
         ELSE <<s[1]>> \o GetTextContent(Tail(s))

\* utils/highlighter: the language tables and the highlight capability
sTypescript == <<"t","y","p","e","s","c","r","i","p","t">>
sTs == <<"t","s">>
sGo == <<"g","o">>
sCobol == <<"c","o","b","o","l">>

SupportedLanguages == {sTypescript, sTs, sGo}
LoadedLanguages == {sTypescript, sTs}

isSupportedLanguage(lang) == lang \in SupportedLanguages
isLoadedLanguage(lang) == lang \in LoadedLanguages

\* highlight(text, lang): the text wrapped in a span carrying the language
highlight(text, lang) == <<"<", "s", ":">> \o lang \o <<">">> \o text

(* ------------------------------ values -------------------------------- *)
\* null / undefined; not a string any attribute or slug can equal
Null == <<"NULL">>
\* the same for this.page, this.parser, this.renderContext and defaultSlugger
NoPage == 0
NoParser == [id |-> 0]
NoContext == <<"context", 0>>
NoSlugger == [id |-> 0]
\* no parseMarkdown call has returned yet; no getHighlighted call was made yet
NoReturn == [depth |-> 0]
NoCall == [made |-> FALSE]

Pages == {1, 2}
\* the DefaultThemeRenderContext of a page: callers pass the page's own context
ContextOf(p) == <<"context", p>>
Contexts == {ContextOf(p) : p \in Pages}

RuleNames == {"heading_open", "heading_close", "link_open", "fence"}
OwnRules == {"heading_open", "heading_close", "link_open"}

\* a markdown-it token: the fields the rules read
Tok(type, tag, markup, content, href, info) ==
    [type |-> type, tag |-> tag, markup |-> markup, content |-> content,
     href |-> href, info |-> info]

Heading(markup, tag, content) ==
    << Tok("heading_open", tag, markup, <<>>, Null, <<>>),
       Tok("inline", <<>>, <<>>, content, Null, <<>>),
       Tok("heading_close", tag, markup, <<>>, Null, <<>>) >>
LinkOpen(href) == << Tok("link_open", <<"a">>, <<>>, <<>>, href, <<>>) >>
Fence(info, content) == << Tok("fence", <<"c","o","d","e">>, <<"~","~","~">>, content, Null, info) >>
Text(content) == << Tok("text", <<>>, <<>>, content, Null, <<>>) >>
HtmlInline(content) == << Tok("html_inline", <<>>, <<>>, content, Null, <<>>) >>

sTitle == <<"T","i","t","l","e">>
sTitle1 == <<"T","i","t","l","e","-","1">>
sBoldAB == <<"<","b",">","A"," "," ","b","!","<","/","b",">">>
sH1 == <<"h","1">>
sH2 == <<"h","2">>
sH3 == <<"h","3">>
sMd == <<"m","d",":">>
sHashMd == <<"#","m","d",":">>
sFoo == <<"f","o","o">>

\* "# Title\n\n# Title"
DocTitleTwice == Heading(<<"#">>, sH1, sTitle) \o Heading(<<"#">>, sH1, sTitle)
\* "Title-1\n-------": a setext heading, whose markup is the underline character
DocTitle1 == Heading(<<"-">>, sH2, sTitle1)
\* "### <b>A  b!</b>\n\n[x](#foo)\n\n~~~go\nx\n~~~"
DocMixed == Heading(<<"#","#","#">>, sH3, sBoldAB)
            \o LinkOpen(<<"#">> \o sFoo)
            \o Fence(sGo, <<"x","\n">>)

Docs == {DocTitleTwice}

\* rich-text input: a sequence of display parts
TextPart(tokens) == [kind |-> "text", tokens |-> tokens, target |-> <<>>]
LinkPart(target) == [kind |-> "inline-tag", tokens |-> <<>>, target |-> target]
PartsMixed == << TextPart(DocTitle1 \o HtmlInline(<<"<","i",">">>)), LinkPart(sFoo),
                TextPart(DocMixed) >>
PartsInputs == {PartsMixed}

StringInput(doc) == [isString |-> TRUE, value |-> doc]
PartsInput(parts) == [isString |-> FALSE, value |-> parts]
Inputs == {StringInput(d) : d \in Docs} \cup {PartsInput(p) : p \in PartsInputs}

\* values markdownItOptions["html"] may hold, and JavaScript's truthiness (!!v)
HtmlOptionValues == {"undefined", "false", "true", "0", "'yes'"}
Truthy(v) == v \notin {"undefined", "null", "false", "0", "''"}

WarnNoGetSlugger == [msg |-> "custom_theme_does_not_define_getSlugger", lang |-> <<>>, name |-> <<>>]
WarnUnsupported(lang, name) ==
    [msg |-> "unsupported_highlight_language_0_not_highlighted_in_comment_for_1",
     lang |-> lang, name |-> name]
WarnUnloaded(lang, name) ==
    [msg |-> "unloaded_language_0_not_highlighted_in_comment_for_1",
     lang |-> lang, name |-> name]

MarkedListener == [kind |-> "marked", id |-> 0]
OtherListener(n) == [kind |-> "other", id |-> n]

(* ------------------------------- state -------------------------------- *)
VARIABLES
    parser,              \* this.parser: NoParser or the engine [id, rules, loaderCalls]
    enginesBuilt,        \* how many engines markdown(...) has constructed
    listeners,           \* the owner's PARSE subscribers, in registration order:
                         \* the MarkedPlugin's own, alone or between two others
    page,                \* this.page of ContextAwareRendererComponent: NoPage or a page
    renderContext,       \* this.renderContext
    lastHeaderSlug,      \* this.lastHeaderSlug
    defaultSlugger,      \* the module-level defaultSlugger: NoSlugger or [id, issued]
    sluggersCreated,     \* how many times line 19's new Slugger() has run
    themeHasGetSlugger,  \* "getSlugger" in this.owner.theme
    themeSluggers,       \* the theme's slugger of each page: the slugs issued, in order
    pageHeadings,        \* page.pageHeadings of every page
    htmlOption,          \* markdownItOptions["html"]
    warnings,            \* what logger.warn has been given, in order
    highlightCalls,      \* the calls made to the highlight capability, in order
    stack,               \* the parseMarkdown calls in progress, innermost last
    calls,               \* parseMarkdown calls started
    lastReturn,          \* the last parseMarkdown call that returned
    rendered,            \* the heading tokens rendered so far, with the HTML emitted
    lastHighlighted      \* the last getHighlighted call: arguments, result, effects

vars == << parser, enginesBuilt, listeners, page, renderContext, lastHeaderSlug,
           defaultSlugger, sluggersCreated, themeHasGetSlugger, themeSluggers,
           pageHeadings, htmlOption, warnings, highlightCalls, stack, calls,
           lastReturn, rendered, lastHighlighted >>

(* ------------------------- slugger lookup ----------------------------- *)
\* a getDefaultSlugger that makes a new Slugger, and warns, on every call
getDefaultSlugger_Always ==
    [slugger |-> [id |-> sluggersCreated + 1, issued |-> <<>>],
     warn |-> <<WarnNoGetSlugger>>, created |-> 1]

\* getDefaultSlugger: the instance it returns, what it logs, whether it ran new Slugger()
getDefaultSlugger ==
    IF defaultSlugger = NoSlugger
    THEN [slugger |-> [id |-> sluggersCreated + 1, issued |-> <<>>],
          warn |-> <<WarnNoGetSlugger>>, created |-> 1]
    ELSE [slugger |-> defaultSlugger, warn |-> <<>>, created |-> 0]

\* DefaultTheme.getSlugger(page.model): the slugger the theme keeps for the page
ThemeGetSlugger(p) == [id |-> 0, issued |-> themeSluggers[p]]

\* a getSlugger that hands out a new Slugger on every call
getSlugger_Fresh ==
    [fromTheme |-> themeHasGetSlugger, slugger |-> [id |-> 0, issued |-> <<>>],
     warn |-> <<>>, created |-> 0]

\* MarkedPlugin.getSlugger
getSlugger ==
    IF themeHasGetSlugger
    THEN [fromTheme |-> TRUE, slugger |-> ThemeGetSlugger(page), warn |-> <<>>, created |-> 0]
    ELSE [fromTheme |-> FALSE, slugger |-> getDefaultSlugger.slugger,
          warn |-> getDefaultSlugger.warn, created |-> getDefaultSlugger.created]

(* ----------------------------- the rules ------------------------------ *)
\* what heading_open leaves behind: the slug remembered, the entry pushed, the HTML
HeadingResult(token, content, textOf, level, link, slug, got) ==
    [ html |-> << [type |-> "anchor", id |-> sMd \o slug],
                  [type |-> "open", tag |-> token.tag] >>,
      slug |-> slug,
      heading |-> [link |-> link, text |-> GetTextContent(textOf), level |-> level],
      fromTheme |-> got.fromTheme,
      slugger |-> [got.slugger EXCEPT !.issued = Append(@, slug)],
      warn |-> got.warn,
      created |-> got.created ]

\* a heading_open that slugs the content of the heading_open token itself
heading_open_OwnContent(tokens, idx) ==
    LET slug == SlugOf(Range(getSlugger.slugger.issued), tokens[idx].content)
    IN  HeadingResult(tokens[idx], tokens[idx].content, tokens[idx + 1].content,
                      Len(tokens[idx].markup), sHashMd \o slug, slug, getSlugger)

\* a heading_open that takes the level from the tag (h2 gives 2), not from the markup
heading_open_TagLevel(tokens, idx) ==
    LET slug == SlugOf(Range(getSlugger.slugger.issued), tokens[idx + 1].content)
        digit == tokens[idx].tag[2]
        level == (CHOOSE i \in DOMAIN Digits : Digits[i] = digit) - 1
    IN  HeadingResult(tokens[idx], tokens[idx + 1].content, tokens[idx + 1].content,
                      level, sHashMd \o slug, slug, getSlugger)

\* a heading_open that records the link without the md: prefix
heading_open_BareLink(tokens, idx) ==
    LET slug == SlugOf(Range(getSlugger.slugger.issued), tokens[idx + 1].content)
    IN  HeadingResult(tokens[idx], tokens[idx + 1].content, tokens[idx + 1].content,
                      Len(tokens[idx].markup), <<"#">> \o slug, slug, getSlugger)

\* a heading_open that remembers the slug as computed from the text alone, before
\* the slugger made it unique
heading_open_RememberBase(tokens, idx) ==
    LET content == tokens[idx + 1].content
        slug == SlugOf(Range(getSlugger.slugger.issued), content)
    IN  [HeadingResult(tokens[idx], content, content, Len(tokens[idx].markup),
                       sHashMd \o slug, slug, getSlugger)
            EXCEPT !.slug = Serialize(content)]

\* rules["heading_open"]: the HTML returned and the effects on the component
heading_open(tokens, idx) ==
    LET token == tokens[idx]
        content == tokens[idx + 1].content
        level == Len(token.markup)
        got == getSlugger
        slug == SlugOf(Range(got.slugger.issued), content)
    IN  HeadingResult(token, content, content, level, sHashMd \o slug, slug, got)

\* rules["heading_close"]
heading_close(tokens, idx) ==
    << [type |-> "icon", ctx |-> renderContext, ref |-> sMd \o lastHeaderSlug],
       [type |-> "close", tag |-> tokens[idx].tag] >>

\* a rewrite without the optional md: group: href.replace(/^#(.+)/, "#md:$1")
RewriteHref_AlwaysPrefix(href) ==
    IF Len(href) >= 2 /\ href[1] = "#" THEN sHashMd \o Tail(href) ELSE href

\* href.replace(/^#(?:md:)?(.+)/, "#md:$1"): the optional group is tried first and
\* given up when nothing is left for (.+)
RewriteHref(href) ==
    IF Len(href) >= 1 /\ href[1] = "#"
    THEN LET rest == Tail(href) IN
         IF StartsWith(rest, sMd) /\ Len(rest) > Len(sMd)
         THEN sHashMd \o SubSeq(rest, Len(sMd) + 1, Len(rest))
         ELSE IF Len(rest) >= 1 THEN sHashMd \o rest
         ELSE href
    ELSE href

\* rules["link_open"]: the token's href after the rule, as renderToken writes it out
link_open(tokens, idx) ==
    LET token == tokens[idx]
        href == IF token.href = Null THEN Null ELSE RewriteHref(token.href)
        after == IF href # Null /\ href # <<>> THEN href ELSE token.href
    IN  << [type |-> "open_link", tag |-> token.tag, href |-> after] >>

\* a highlight option that asks isSupportedLanguage first, as getHighlighted does,
\* and leaves the code alone when the language is not supported
HighlightOption_Validated(code, lang) ==
    LET used == IF lang = <<>> THEN sTs ELSE lang
        ok == isSupportedLanguage(ToLowerCase(used))
        hl == IF ok THEN highlight(code, used) ELSE code
        trimmed == IF Len(hl) > 0 /\ hl[Len(hl)] = "\n"
                   THEN SubSeq(hl, 1, Len(hl) - 1) ELSE hl
    IN  [ html |-> << [type |-> "pre", hasClass |-> lang # <<>>,
                       class |-> IF lang = <<>> THEN <<>> ELSE EscapeHtml(lang),
                       code |-> trimmed \o <<"\n">>, button |-> "Copy"] >>,
          hl |-> IF ok THEN << [text |-> code, lang |-> used, by |-> "fence"] >>
                 ELSE <<>> ]

\* a highlight option that appends the newline without trimming one first
HighlightOption_NoTrim(code, lang) ==
    LET used == IF lang = <<>> THEN sTs ELSE lang
        body == highlight(code, used) \o <<"\n">>
    IN  [ html |-> << [type |-> "pre", hasClass |-> lang # <<>>,
                       class |-> IF lang = <<>> THEN <<>> ELSE EscapeHtml(lang),
                       code |-> body, button |-> "Copy"] >>,
          hl |-> << [text |-> code, lang |-> used, by |-> "fence"] >> ]

\* the highlight option given to markdown(...): the block and the highlight call made
HighlightOption(code, lang) ==
    LET used == IF lang = <<>> THEN sTs ELSE lang
        hl == highlight(code, used)
        trimmed == IF Len(hl) > 0 /\ hl[Len(hl)] = "\n"
                   THEN SubSeq(hl, 1, Len(hl) - 1) ELSE hl
        body == trimmed \o <<"\n">>
    IN  [ html |-> << [type |-> "pre", hasClass |-> lang # <<>>,
                       class |-> IF lang = <<>> THEN <<>> ELSE EscapeHtml(lang),
                       code |-> body, button |-> "Copy"] >>,
          hl |-> << [text |-> code, lang |-> used, by |-> "fence"] >> ]

\* markdown-it's own rules: fence hands content and language to options.highlight
\* and emits a result starting with "<pre" as it is
DefaultRule(tokens, idx) ==
    LET token == tokens[idx] IN
    CASE token.type = "fence" -> HighlightOption(token.content, token.info)
      [] token.type \in {"heading_open", "link_open"} ->
            [html |-> << [type |-> "open", tag |-> token.tag] >>, hl |-> <<>>]
      [] token.type = "heading_close" ->
            [html |-> << [type |-> "close", tag |-> token.tag] >>, hl |-> <<>>]
      [] OTHER -> [html |-> << [type |-> "html", of |-> token.type, content |-> token.content] >>,
                   hl |-> <<>>]

\* a rule the loader registered
LoaderRule(tokens, idx) ==
    [html |-> << [type |-> "loader", rule |-> tokens[idx].type] >>, hl |-> <<>>]


(* ---------------------------- setupParser ------------------------------ *)
\* a markdown-it instance as constructed: every rule is the library's own; the
\* instance keeps count of the loader calls it was handed to and of the rule
\* names the loader registered on it
Engine(id) == [id |-> id,
               rules |-> [r \in RuleNames |-> "default"],
               loaderCalls |-> 0,
               registered |-> {}]

\* markdown({...this.markdownItOptions, highlight})
NewEngine == Engine(enginesBuilt + 1)

\* loader(this.parser): the hook registers rules of its own under the names it likes
Loader(engine, names) ==
    [engine EXCEPT !.rules = [r \in RuleNames |-> IF r \in names THEN "loader" ELSE @[r]],
                   !.loaderCalls = @ + 1,
                   !.registered = @ \cup names]

\* this.parser.renderer.rules[...] = ... for the three overrides
InstallOverrides(engine) ==
    [engine EXCEPT !.rules = [r \in RuleNames |-> IF r \in OwnRules THEN "marked" ELSE @[r]]]

\* a setupParser that installs the overrides first and calls the loader last
setupParser_LoaderLast(names) == Loader(InstallOverrides(NewEngine), names)

setupParser(names) == InstallOverrides(Loader(NewEngine, names))

\* what the markdownItLoader option may register: nothing, a fence rule, or a
\* rule under every name, the three overridden ones included
LoaderChoices == {{}, {"fence"}, RuleNames}

(* --------------------------- getHighlighted ---------------------------- *)
FriendlyName == IF page = NoPage THEN <<"(unknown)">> ELSE <<"page", page>>

\* a getHighlighted that compares the tag as given, without lower-casing it
getHighlighted_CaseSensitive(text, lang) ==
    LET given == IF lang = Null \/ lang = <<>> THEN sTypescript ELSE lang
    IN  IF ~isSupportedLanguage(given)
        THEN [result |-> text, warn |-> <<WarnUnsupported(given, FriendlyName)>>, hl |-> <<>>]
        ELSE IF ~isLoadedLanguage(given)
        THEN [result |-> text, warn |-> <<WarnUnloaded(given, FriendlyName)>>, hl |-> <<>>]
        ELSE [result |-> highlight(text, given), warn |-> <<>>,
              hl |-> << [text |-> text, lang |-> given, by |-> "getHighlighted"] >>]

\* MarkedPlugin.getHighlighted: the result, the warning logged, the highlight call made
getHighlighted(text, lang) ==
    LET given == IF lang = Null \/ lang = <<>> THEN sTypescript ELSE lang
        lower == ToLowerCase(given)
    IN  IF ~isSupportedLanguage(lower)
        THEN [result |-> text, warn |-> <<WarnUnsupported(lower, FriendlyName)>>, hl |-> <<>>]
        ELSE IF ~isLoadedLanguage(lower)
        THEN [result |-> text, warn |-> <<WarnUnloaded(lower, FriendlyName)>>, hl |-> <<>>]
        ELSE [result |-> highlight(text, lower), warn |-> <<>>,
              hl |-> << [text |-> text, lang |-> lower, by |-> "getHighlighted"] >>]

(* ---------------------- Comment.displayPartsToMarkdown ------------------ *)
\* a cross-reference becomes a markdown link to urlTo(target); raw HTML is kept
\* when useHtml is set and escaped to text otherwise
UrlTo(context, target) == <<"/">> \o target

EscapeToken(t) ==
    IF t.type = "html_inline" THEN [t EXCEPT !.type = "text", !.content = EscapeHtml(@)]
    ELSE IF t.type = "inline" THEN [t EXCEPT !.content = EscapeHtml(@)]
    ELSE t

RECURSIVE displayPartsToMarkdown(_, _, _)
displayPartsToMarkdown(parts, context, useHtml) ==
    IF parts = <<>> THEN <<>>
    ELSE LET part == parts[1]
             md == IF part.kind = "text"
                   THEN IF useHtml THEN part.tokens
                        ELSE [i \in DOMAIN part.tokens |-> EscapeToken(part.tokens[i])]
                   ELSE LinkOpen(UrlTo(context, part.target))
         IN  md \o displayPartsToMarkdown(Tail(parts), context, useHtml)

(* ------------------------------ rendering ------------------------------ *)
Top == stack[Len(stack)]

\* what rendering token idx does: the HTML, and the effects of the rule that ran
RuleEffect(tokens, idx) ==
    LET token == tokens[idx]
        owner == IF token.type \in RuleNames THEN parser.rules[token.type] ELSE "default"
        none == [html |-> <<>>, hl |-> <<>>, warn |-> <<>>, headings |-> <<>>,
                 slug |-> lastHeaderSlug, slugged |-> FALSE, fromTheme |-> FALSE,
                 slugger |-> NoSlugger, created |-> 0]
    IN  IF owner = "marked" /\ token.type = "heading_open"
        THEN LET r == heading_open(tokens, idx) IN
             [html |-> r.html, hl |-> <<>>, warn |-> r.warn, headings |-> <<r.heading>>,
              slug |-> r.slug, slugged |-> TRUE, fromTheme |-> r.fromTheme,
              slugger |-> r.slugger, created |-> r.created]
        ELSE IF owner = "marked" /\ token.type = "heading_close"
        THEN [none EXCEPT !.html = heading_close(tokens, idx)]
        ELSE IF owner = "marked" /\ token.type = "link_open"
        THEN [none EXCEPT !.html = link_open(tokens, idx)]
        ELSE IF owner = "loader"
        THEN [none EXCEPT !.html = LoaderRule(tokens, idx).html]
        ELSE [none EXCEPT !.html = DefaultRule(tokens, idx).html,
                          !.hl = DefaultRule(tokens, idx).hl]

\* the record kept of a heading token's rendering: the current page, the page the
\* call was given, the token, the HTML emitted
RenderRecord(tokens, idx, html) ==
    IF tokens[idx].type = "heading_open"
    THEN << [page |-> page, arg |-> Top.event.page, type |-> "heading_open",
             markup |-> tokens[idx].markup,
             content |-> tokens[idx + 1].content, html |-> html] >>
    ELSE IF tokens[idx].type = "heading_close"
    THEN << [page |-> page, arg |-> Top.event.page, type |-> "heading_close",
             markup |-> tokens[idx].markup,
             content |-> <<>>, html |-> html] >>
    ELSE <<>>

(* ------------------------------- actions ------------------------------- *)
Init ==
    /\ parser = NoParser
    /\ enginesBuilt = 0
    /\ listeners \in {<<MarkedListener>>,
                      <<OtherListener(1), MarkedListener, OtherListener(2)>>}
    /\ page = NoPage
    /\ renderContext = NoContext
    /\ lastHeaderSlug = <<>>
    /\ defaultSlugger = NoSlugger
    /\ sluggersCreated = 0
    /\ themeHasGetSlugger \in BOOLEAN
    /\ themeSluggers = [p \in Pages |-> <<>>]
    /\ pageHeadings = [p \in Pages |-> <<>>]
    /\ htmlOption = "false"
    /\ warnings = <<>>
    /\ highlightCalls = <<>>
    /\ stack = <<>>
    /\ calls = 0
    /\ lastReturn = NoReturn
    /\ rendered = <<>>
    /\ lastHighlighted = NoCall

\* onBeginRenderer: setupParser with a loader that registers rules under `names`
OnBeginRenderer(names) ==
    /\ stack = <<>>
    /\ enginesBuilt < MaxEngines
    /\ parser' = setupParser(names)
    /\ enginesBuilt' = enginesBuilt + 1
    /\ UNCHANGED << listeners, page, renderContext, lastHeaderSlug,
                    defaultSlugger, sluggersCreated, themeHasGetSlugger, themeSluggers,
                    pageHeadings, htmlOption, warnings, highlightCalls, stack, calls,
                    lastReturn, rendered, lastHighlighted >>

\* ContextAwareRendererComponent.onBeginPage: this.page = page. The renderer
\* takes the pages one after the other, each once.
OnBeginPage(p) ==
    /\ stack = <<>>
    /\ p = page + 1
    /\ page' = p
    /\ UNCHANGED << parser, enginesBuilt, listeners, renderContext, lastHeaderSlug,
                    defaultSlugger, sluggersCreated, themeHasGetSlugger, themeSluggers,
                    pageHeadings, htmlOption, warnings, highlightCalls, stack, calls,
                    lastReturn, rendered, lastHighlighted >>

\* new MarkdownEvent(MarkdownEvent.PARSE, page, markdown, markdown)
MarkdownEvent(pg, originalText, parsedText) ==
    [page |-> pg, originalText |-> originalText, parsedText |-> parsedText]

\* a parseMarkdown that asks for raw HTML to be kept whatever the option says
ParseMarkdownFrame_KeepHtml(input, pg, context) ==
    LET markdown == IF input.isString THEN input.value
                    ELSE displayPartsToMarkdown(input.value, context, TRUE)
    IN  [event |-> [page |-> pg, originalText |-> markdown, parsedText |-> markdown],
         context |-> context, isString |-> input.isString, subscribers |-> listeners,
         next |-> 1, phase |-> "dispatch", pos |-> 0, out |-> <<>>, ran |-> <<>>]

\* parseMarkdown up to owner.trigger(event)
ParseMarkdownFrame(input, pg, context) ==
    LET markdown == IF input.isString THEN input.value
                    ELSE displayPartsToMarkdown(input.value, context, Truthy(htmlOption))
    IN  [event |-> MarkdownEvent(pg, markdown, markdown),
         context |-> context, isString |-> input.isString, subscribers |-> listeners,
         next |-> 1, phase |-> "dispatch", pos |-> 0, out |-> <<>>, ran |-> <<>>]

ParseMarkdown(input, pg, context) ==
    /\ calls < MaxCalls
    /\ parser # NoParser
    /\ page # NoPage
    /\ IF stack = <<>> THEN TRUE ELSE Top.phase = "listener"
    /\ renderContext' = context
    /\ stack' = Append(stack, ParseMarkdownFrame(input, pg, context))
    /\ calls' = calls + 1
    /\ UNCHANGED << parser, enginesBuilt, listeners, page, lastHeaderSlug,
                    defaultSlugger, sluggersCreated, themeHasGetSlugger, themeSluggers,
                    pageHeadings, htmlOption, warnings, highlightCalls,
                    lastReturn, rendered, lastHighlighted >>

SetTop(frame) == [stack EXCEPT ![Len(stack)] = frame]

Dispatching == stack # <<>> /\ Top.phase = "dispatch" /\ Top.next <= Len(Top.subscribers)

\* owner.trigger reaches the MarkedPlugin's subscriber: parser.render starts
OnParseMarkdown ==
    /\ Dispatching
    /\ Top.subscribers[Top.next].kind = "marked"
    /\ stack' = SetTop([Top EXCEPT !.phase = "render", !.pos = 1, !.out = <<>>])
    /\ UNCHANGED << parser, enginesBuilt, listeners, page, renderContext, lastHeaderSlug,
                    defaultSlugger, sluggersCreated, themeHasGetSlugger, themeSluggers,
                    pageHeadings, htmlOption, warnings, highlightCalls, calls,
                    lastReturn, rendered, lastHighlighted >>

\* parser.render runs the rule of the next token
RenderToken ==
    /\ stack # <<>>
    /\ Top.phase = "render"
    /\ Top.pos <= Len(Top.event.parsedText)
    /\ LET eff == RuleEffect(Top.event.parsedText, Top.pos) IN
        /\ stack' = SetTop([Top EXCEPT !.pos = @ + 1, !.out = @ \o eff.html])
        /\ lastHeaderSlug' = eff.slug
        /\ pageHeadings' = [pageHeadings EXCEPT ![page] = @ \o eff.headings]
        /\ rendered' = rendered \o RenderRecord(Top.event.parsedText, Top.pos, eff.html)
        /\ warnings' = warnings \o eff.warn
        /\ highlightCalls' = highlightCalls \o eff.hl
        /\ sluggersCreated' = sluggersCreated + eff.created
        /\ themeSluggers' = IF eff.slugged /\ eff.fromTheme
                            THEN [themeSluggers EXCEPT ![page] = eff.slugger.issued]
                            ELSE themeSluggers
        /\ defaultSlugger' = IF eff.slugged /\ ~eff.fromTheme
                             THEN eff.slugger ELSE defaultSlugger
    /\ UNCHANGED << parser, enginesBuilt, listeners, page, renderContext,
                    themeHasGetSlugger, htmlOption, calls, lastReturn, lastHighlighted >>

\* onParseMarkdown assigns the rendered HTML to event.parsedText
RenderDone ==
    /\ stack # <<>>
    /\ Top.phase = "render"
    /\ Top.pos > Len(Top.event.parsedText)
    /\ stack' = SetTop([Top EXCEPT !.event.parsedText = Top.out,
                                   !.phase = "dispatch",
                                   !.ran = Append(@, Top.subscribers[Top.next]),
                                   !.next = @ + 1])
    /\ UNCHANGED << parser, enginesBuilt, listeners, page, renderContext, lastHeaderSlug,
                    defaultSlugger, sluggersCreated, themeHasGetSlugger, themeSluggers,
                    pageHeadings, htmlOption, warnings, highlightCalls, calls,
                    lastReturn, rendered, lastHighlighted >>

\* owner.trigger reaches another subscriber
OtherEnter ==
    /\ Dispatching
    /\ Top.subscribers[Top.next].kind = "other"
    /\ stack' = SetTop([Top EXCEPT !.phase = "listener"])
    /\ UNCHANGED << parser, enginesBuilt, listeners, page, renderContext, lastHeaderSlug,
                    defaultSlugger, sluggersCreated, themeHasGetSlugger, themeSluggers,
                    pageHeadings, htmlOption, warnings, highlightCalls, calls,
                    lastReturn, rendered, lastHighlighted >>

\* the other subscriber's transformation of event.parsedText: it adds a piece of its own
OtherTransform(text, who) == text \o Text(<<"+", who.id>>)

OtherExit ==
    /\ stack # <<>>
    /\ Top.phase = "listener"
    /\ LET who == Top.subscribers[Top.next]
           text == OtherTransform(Top.event.parsedText, who)
       IN  stack' = SetTop([Top EXCEPT !.event.parsedText = text,
                                       !.phase = "dispatch",
                                       !.ran = Append(@, who),
                                       !.next = @ + 1])
    /\ UNCHANGED << parser, enginesBuilt, listeners, page, renderContext, lastHeaderSlug,
                    defaultSlugger, sluggersCreated, themeHasGetSlugger, themeSluggers,
                    pageHeadings, htmlOption, warnings, highlightCalls, calls,
                    lastReturn, rendered, lastHighlighted >>

\* a parseMarkdown that returns the text it dispatched
ReturnValue_Original(frame) == frame.event.originalText

\* what parseMarkdown returns once owner.trigger(event) is back
ReturnValue(frame) == frame.event.parsedText

\* parseMarkdown after owner.trigger(event): clear the context, return
ParseMarkdownReturn ==
    /\ stack # <<>>
    /\ Top.phase = "dispatch"
    /\ Top.next > Len(Top.subscribers)
    /\ renderContext' = NoContext
    /\ lastReturn' = [value |-> ReturnValue(Top), depth |-> Len(stack)]
    /\ stack' = SubSeq(stack, 1, Len(stack) - 1)
    /\ UNCHANGED << parser, enginesBuilt, listeners, page, lastHeaderSlug,
                    defaultSlugger, sluggersCreated, themeHasGetSlugger, themeSluggers,
                    pageHeadings, htmlOption, warnings, highlightCalls, calls,
                    rendered, lastHighlighted >>

LangArgs == {Null, <<>>, sCobol, sGo, <<"G","o">>, sTypescript, <<"T","S">>, <<"t","s","x">>}
CodeTexts == {<<"x">>, <<"l","e","t","\n">>}

GetHighlighted(text, lang) ==
    /\ Len(warnings) + Len(highlightCalls) < MaxHighlightCalls
    /\ LET r == getHighlighted(text, lang) IN
        /\ warnings' = warnings \o r.warn
        /\ highlightCalls' = highlightCalls \o r.hl
        /\ lastHighlighted' = [made |-> TRUE, text |-> text, lang |-> lang,
                               result |-> r.result, warningsBefore |-> Len(warnings),
                               callsBefore |-> Len(highlightCalls)]
    /\ UNCHANGED << parser, enginesBuilt, listeners, page, renderContext, lastHeaderSlug,
                    defaultSlugger, sluggersCreated, themeHasGetSlugger, themeSluggers,
                    pageHeadings, htmlOption, stack, calls, lastReturn, rendered >>

Next ==
    \/ \E names \in LoaderChoices : OnBeginRenderer(names)
    \/ \E p \in Pages : OnBeginPage(p)
    \* DefaultThemeRenderContext.markdown hands over its own page and itself
    \/ \E input \in Inputs : ParseMarkdown(input, page, ContextOf(page))
    \/ OnParseMarkdown
    \/ RenderToken
    \/ RenderDone
    \/ OtherEnter
    \/ OtherExit
    \/ ParseMarkdownReturn

Spec == Init /\ [][Next]_vars

(* ---------------- the rules on enumerated single tokens ----------------- *)
SeqsUpTo(S, n) == UNION {[1..k -> S] : k \in 0..n}

sExample == <<"h","t","t","p","s",":","/","/","e","x","a","m","p","l","e",".","c","o","m">>
HrefChars == {"#", "m", "d", ":", "x"}
Hrefs == SeqsUpTo(HrefChars, MaxHrefLen)
         \cup {sExample, <<"#">> \o sFoo, sHashMd \o sFoo, Null}

FenceInfos == {<<>>, sGo, <<"G","o">>, <<"c","<","&">>, sCobol}
FenceContents == SeqsUpTo({"x", "\n"}, MaxCodeLen)

RuleDocs == {LinkOpen(h) : h \in Hrefs}
            \cup {Fence(info, code) : info \in FenceInfos, code \in FenceContents}

\* a component set up for page 1, inside parseMarkdown of a one-token document
InitRule ==
    /\ enginesBuilt = 1
    /\ \E names \in {{}, RuleNames} :
          parser = InstallOverrides(Loader(Engine(1), names))
    /\ listeners = <<MarkedListener>>
    /\ page = 1
    /\ renderContext = ContextOf(1)
    /\ lastHeaderSlug = <<>>
    /\ defaultSlugger = NoSlugger
    /\ sluggersCreated = 0
    /\ themeHasGetSlugger = TRUE
    /\ themeSluggers = [p \in Pages |-> <<>>]
    /\ pageHeadings = [p \in Pages |-> <<>>]
    /\ htmlOption = "false"
    /\ warnings = <<>>
    /\ highlightCalls = <<>>
    /\ \E doc \in RuleDocs :
          stack = << [event |-> MarkdownEvent(1, doc, doc), context |-> ContextOf(1),
                      isString |-> TRUE, subscribers |-> <<MarkedListener>>,
                      next |-> 1, phase |-> "dispatch", pos |-> 0, out |-> <<>>,
                      ran |-> <<>>] >>
    /\ calls = 1
    /\ lastReturn = NoReturn
    /\ rendered = <<>>
    /\ lastHighlighted = NoCall

NextRule ==
    \/ OnParseMarkdown
    \/ RenderToken
    \/ RenderDone
    \/ ParseMarkdownReturn

SpecRule == InitRule /\ [][NextRule]_vars

(* ------------------------ getHighlighted on its own --------------------- *)
NextHighlight ==
    \/ \E p \in Pages : OnBeginPage(p)
    \/ \E text \in CodeTexts, lang \in LangArgs : GetHighlighted(text, lang)

SpecHighlight == Init /\ [][NextHighlight]_vars

(* --------------------- flattening under every option -------------------- *)
\* "# <b>A  b!</b>\n\n<i>": raw HTML in a heading and on its own
DocHtml == Heading(<<"#">>, sH1, sBoldAB) \o HtmlInline(<<"<","i",">">>)
\* the same text as a display part, followed by a cross-reference
PartsHtml == << TextPart(DocHtml), LinkPart(sFoo) >>
FlattenInputs == {StringInput(DocHtml), PartsInput(PartsHtml)}

\* a component set up for page 1, markdownItOptions["html"] holding any value
InitFlatten ==
    /\ enginesBuilt = 1
    /\ parser = InstallOverrides(Loader(Engine(1), {}))
    /\ listeners = <<MarkedListener>>
    /\ page = 1
    /\ renderContext = NoContext
    /\ lastHeaderSlug = <<>>
    /\ defaultSlugger = NoSlugger
    /\ sluggersCreated = 0
    /\ themeHasGetSlugger = TRUE
    /\ themeSluggers = [p \in Pages |-> <<>>]
    /\ pageHeadings = [p \in Pages |-> <<>>]
    /\ htmlOption \in HtmlOptionValues
    /\ warnings = <<>>
    /\ highlightCalls = <<>>
    /\ stack = <<>>
    /\ calls = 0
    /\ lastReturn = NoReturn
    /\ rendered = <<>>
    /\ lastHighlighted = NoCall

NextFlatten ==
    \/ \E p \in Pages : OnBeginPage(p)
    \/ \E input \in FlattenInputs : ParseMarkdown(input, page, ContextOf(page))
    \/ OnParseMarkdown
    \/ RenderToken
    \/ RenderDone
    \/ ParseMarkdownReturn

SpecFlatten == InitFlatten /\ [][NextFlatten]_vars

(* ------------------ parseMarkdown given any page ------------------------ *)
\* parseMarkdown is public: the page and context it is given need not be those
\* of the page the component was last told has begun
NextArg ==
    \/ \E names \in LoaderChoices : OnBeginRenderer(names)
    \/ \E p \in Pages : OnBeginPage(p)
    \/ \E input \in Inputs, pg \in Pages : ParseMarkdown(input, pg, ContextOf(pg))
    \/ OnParseMarkdown
    \/ RenderToken
    \/ RenderDone
    \/ OtherEnter
    \/ OtherExit
    \/ ParseMarkdownReturn

SpecArg == Init /\ [][NextArg]_vars

(* ======================= properties of the slugs ======================== *)
NoDup(s) == \A i, j \in DOMAIN s : i # j => s[i] # s[j]

HeadingOpens == SelectSeq(rendered, LAMBDA r : r.type = "heading_open")
OpensOn(p) == SelectSeq(HeadingOpens, LAMBDA r : r.page = p)
AnchorsOf(r) == SelectSeq(r.html, LAMBDA e : e.type = "anchor")
Links(p) == [i \in DOMAIN pageHeadings[p] |-> pageHeadings[p][i].link]

\* the slugger instances in use, each with the slugs it issued and the headings it served
SluggerIds == IF themeHasGetSlugger THEN Pages ELSE {0}
IssuedBy(s) == IF s = 0
               THEN IF defaultSlugger = NoSlugger THEN <<>> ELSE defaultSlugger.issued
               ELSE themeSluggers[s]
ServedBy(s) == IF s = 0 THEN HeadingOpens ELSE OpensOn(s)

sSlugTitle == <<"t","i","t","l","e">>
Slugs3 == << sSlugTitle, sSlugTitle \o <<"-","1">>, sSlugTitle \o <<"-","2">> >>

\* C1: no two slugs issued by one Slugger instance are equal, and no two headings
\* of one page carry the same slug
C1_SlugsUnique ==
    /\ \A p \in Pages : NoDup(themeSluggers[p])
    /\ NoDup(IssuedBy(0))
    /\ \A p \in Pages : NoDup(Links(p))

\* a page whose headings 'Title', 'Title', 'Title-1' got three different slugs
C1_Witness ==
    \E p \in Pages :
        /\ Len(OpensOn(p)) >= 3
        /\ OpensOn(p)[1].content = sTitle
        /\ OpensOn(p)[2].content = sTitle
        /\ OpensOn(p)[3].content = sTitle1
        /\ Len(pageHeadings[p]) >= 3
        /\ Links(p)[3] = sHashMd \o sSlugTitle \o <<"-","1","-","1">>

\* base-k for the smallest k >= 1 whose base-k is not in seen
IsSmallestUnused(slug, base, seen) ==
    \E k \in 1..(Cardinality(seen) + 1) :
        /\ slug = WithSuffix(base, k)
        /\ slug \notin seen
        /\ \A j \in 1..(k - 1) : WithSuffix(base, j) \in seen

Before(s, i) == {IssuedBy(s)[j] : j \in 1..(i - 1)}

\* C2 as claimed: the first call with a text returns its base slug, each further
\* call with the same text the base slug with the smallest suffix not yet issued
C2_Original ==
    \A s \in SluggerIds :
        /\ Len(IssuedBy(s)) = Len(ServedBy(s))
        /\ \A i \in DOMAIN IssuedBy(s) :
              LET text == ServedBy(s)[i].content IN
              IF \A j \in 1..(i - 1) : ServedBy(s)[j].content # text
              THEN IssuedBy(s)[i] = Serialize(text)
              ELSE IsSmallestUnused(IssuedBy(s)[i], Serialize(text), Before(s, i))

\* C2 amended: a call returns the base slug of its text when the instance has not
\* issued that slug yet, and otherwise the base slug with the smallest suffix
\* -1, -2, ... not yet issued; three calls with 'Title' give title, title-1, title-2
C2_SlugByHistory ==
    \A s \in SluggerIds :
        /\ Len(IssuedBy(s)) = Len(ServedBy(s))
        /\ \A i \in DOMAIN IssuedBy(s) :
              LET base == Serialize(ServedBy(s)[i].content) IN
              IF base \notin Before(s, i)
              THEN IssuedBy(s)[i] = base
              ELSE IsSmallestUnused(IssuedBy(s)[i], base, Before(s, i))
        /\ (Len(ServedBy(s)) >= 3 /\ \A i \in 1..3 : ServedBy(s)[i].content = sTitle)
              => SubSeq(IssuedBy(s), 1, 3) = Slugs3

\* one instance was asked for 'Title' three times running
C2_Witness ==
    \E s \in SluggerIds :
        /\ Len(ServedBy(s)) >= 3
        /\ \A i \in 1..3 : ServedBy(s)[i].content = sTitle
        /\ Len(IssuedBy(s)) >= 3
        /\ IssuedBy(s)[3] = Slugs3[3]

(* ==================== properties of the heading list ==================== *)
\* the position, on its page, of the k-th heading rendered
HeadingIndex(k) == Cardinality({j \in 1..k : HeadingOpens[j].page = HeadingOpens[k].page})

sTitleLink(n) == sHashMd \o Slugs3[n]

C3_EntryPerHeading ==
    /\ \A p \in Pages : Len(pageHeadings[p]) = Len(OpensOn(p))
    /\ \A k \in DOMAIN HeadingOpens :
          LET r == HeadingOpens[k]
              i == HeadingIndex(k)
              s == IF themeHasGetSlugger THEN r.page ELSE 0
              n == IF themeHasGetSlugger THEN i ELSE k
          IN  /\ i <= Len(pageHeadings[r.page])
              /\ n <= Len(IssuedBy(s))
              /\ pageHeadings[r.page][i] = [link |-> sHashMd \o IssuedBy(s)[n],
                                            text |-> GetTextContent(r.content),
                                            level |-> Len(r.markup)]
    /\ ( /\ Len(HeadingOpens) >= 2
         /\ HeadingOpens[1].page = HeadingOpens[2].page
         /\ \A k \in 1..2 : HeadingOpens[k].content = sTitle /\ HeadingOpens[k].markup = <<"#">> )
       => SubSeq(pageHeadings[HeadingOpens[1].page], 1, 2)
             = << [link |-> sTitleLink(1), text |-> sTitle, level |-> 1],
                  [link |-> sTitleLink(2), text |-> sTitle, level |-> 1] >>

\* C3: every heading_open rendered appends exactly one entry {link, text, level}
\* to the current page's heading list, link = "#md:" + the slug just issued and
\* level = length of the markup; entries are only ever appended, so the list is
\* in document order ("# Title\n\n# Title" gives #md:title, #md:title-1, level 1)
C3_HeadingsRecorded ==
    /\ []C3_EntryPerHeading
    /\ [][\A p \in Pages : IsPrefix(pageHeadings[p], pageHeadings'[p])]_vars

\* "# Title\n\n# Title" was rendered into a page, and a setext heading after it
C3_Witness ==
    \E p \in Pages :
        /\ Len(pageHeadings[p]) = 3
        /\ pageHeadings[p][2] = [link |-> sTitleLink(2), text |-> sTitle, level |-> 1]
        /\ pageHeadings[p][3].text = sTitle1
        /\ pageHeadings[p][3].level = 1

\* C4: at every point of a page's render pass each heading anchor id md:<slug>
\* in the emitted HTML matches exactly one entry of the page's heading list
C4_AnchorHasOneEntry ==
    \A k \in DOMAIN HeadingOpens :
        LET r == HeadingOpens[k] IN
        /\ Len(AnchorsOf(r)) = 1
        /\ Cardinality({i \in DOMAIN pageHeadings[r.page] :
                           pageHeadings[r.page][i].link = <<"#">> \o AnchorsOf(r)[1].id}) = 1

\* in the middle of a render, after the anchors of two headings were emitted
C4_Witness ==
    /\ stack # <<>>
    /\ Top.phase = "render"
    /\ Top.pos <= Len(Top.event.parsedText)
    /\ \E p \in Pages : Len(OpensOn(p)) >= 2 /\ Len(AnchorsOf(OpensOn(p)[2])) = 1

(* ======================= properties of getHighlighted =================== *)
\* what the last getHighlighted call logged, and the highlight calls it made
WarnedByLast == SubSeq(warnings, lastHighlighted.warningsBefore + 1, Len(warnings))
CalledByLast == SubSeq(highlightCalls, lastHighlighted.callsBefore + 1, Len(highlightCalls))

LanguageAsked(lang) == ToLowerCase(IF lang = Null \/ lang = <<>> THEN sTypescript ELSE lang)

\* C5: getHighlighted has exactly three outcomes. Language (lower-cased, default
\* typescript) not supported: one unsupported-language warning, text returned as
\* it is. Supported but not loaded: one unloaded-language warning, text returned
\* as it is. Otherwise: no warning, the result of highlight. highlight is not
\* called in the first two.
C5_ThreeOutcomes ==
    lastHighlighted.made =>
        LET c == lastHighlighted
            l == LanguageAsked(c.lang)
        IN  \/ /\ l \notin SupportedLanguages
               /\ c.result = c.text
               /\ Len(WarnedByLast) = 1
               /\ WarnedByLast[1].msg
                     = "unsupported_highlight_language_0_not_highlighted_in_comment_for_1"
               /\ WarnedByLast[1].lang = l
               /\ CalledByLast = <<>>
            \/ /\ l \in SupportedLanguages
               /\ l \notin LoadedLanguages
               /\ c.result = c.text
               /\ Len(WarnedByLast) = 1
               /\ WarnedByLast[1].msg = "unloaded_language_0_not_highlighted_in_comment_for_1"
               /\ WarnedByLast[1].lang = l
               /\ CalledByLast = <<>>
            \/ /\ l \in SupportedLanguages
               /\ l \in LoadedLanguages
               /\ WarnedByLast = <<>>
               /\ CalledByLast = << [text |-> c.text, lang |-> l, by |-> "getHighlighted"] >>
               /\ c.result = highlight(c.text, l)

\* each outcome was seen: "cobol", then "Go" (supported once lower-cased, not loaded),
\* or no language at all, which is highlighted as typescript
C5_Witness ==
    /\ lastHighlighted.made
    /\ lastHighlighted.lang = <<"G","o">>
    /\ Len(warnings) = 2
    /\ warnings[1].lang = sCobol
    /\ warnings[2].msg = "unloaded_language_0_not_highlighted_in_comment_for_1"

(* ======================== properties of link_open ======================= *)
\* the one-token document was a link, and its rule has run
LinkRendered ==
    /\ stack # <<>>
    /\ Top.pos = 2
    /\ Top.event.originalText[1].type = "link_open"

HrefIn == Top.event.originalText[1].href
HrefOut == Top.out[1].href

\* '#md:' followed by at least one character
IsPrefixed(h) == StartsWith(h, sHashMd) /\ Len(h) > Len(sHashMd)

\* C6: link_open rewrites an href '#X' or '#md:X' (X non-empty) to '#md:X' and
\* leaves an href that does not start with '#' (or that is absent) as it is; the
\* rewrite is idempotent: running the rule on its own output changes nothing.
\* '#foo' and '#md:foo' both become '#md:foo', 'https://example.com' stays.
C6_LinkRewrite ==
    LinkRendered =>
        /\ Len(Top.out) = 1
        /\ HrefIn = Null => HrefOut = Null
        /\ HrefIn # Null =>
              /\ (HrefIn = <<>> \/ HrefIn[1] # "#") => HrefOut = HrefIn
              /\ IsPrefixed(HrefIn) => HrefOut = HrefIn
              /\ (Len(HrefIn) >= 2 /\ HrefIn[1] = "#" /\ ~IsPrefixed(HrefIn))
                    => HrefOut = sHashMd \o Tail(HrefIn)
              /\ link_open(LinkOpen(HrefOut), 1)[1].href = HrefOut
        /\ HrefIn \in {<<"#">> \o sFoo, sHashMd \o sFoo} => HrefOut = sHashMd \o sFoo
        /\ HrefIn = sExample => HrefOut = sExample

\* an already prefixed fragment went through the rule
C6_Witness ==
    /\ LinkRendered
    /\ HrefIn = sHashMd \o sFoo
    /\ HrefOut = sHashMd \o sFoo

(* ===================== properties of the code fence ===================== *)
\* the one-token document was a fence rendered by markdown-it's own fence rule,
\* which hands over to the highlight option
FenceRendered ==
    /\ stack # <<>>
    /\ Top.pos = 2
    /\ Top.event.originalText[1].type = "fence"
    /\ parser.rules["fence"] = "default"

FenceTag == Top.event.originalText[1].info
FenceBlock == Top.out[1]
\* what the highlighter gave back for the call the fence made
Highlighted == highlight(highlightCalls[1].text, highlightCalls[1].lang)

\* the control, and the class attribute: absent without a tag, the escaped tag with one
FenceDecoration ==
    /\ Len(Top.out) = 1
    /\ FenceBlock.type = "pre"
    /\ FenceBlock.button = "Copy"
    /\ FenceBlock.hasClass = (FenceTag # <<>>)
    /\ FenceTag # <<>> => FenceBlock.class = EscapeHtml(FenceTag)
    /\ FenceTag = sGo => FenceBlock.class = sGo

\* C8 as claimed: the content of the block ends with exactly one newline
C8_Original ==
    FenceRendered =>
        /\ TrailingNewlines(FenceBlock.code) = 1
        /\ FenceDecoration

\* C8 amended: the content of the block is the highlighter output with one
\* trailing newline trimmed, if it has one, and one newline appended; it ends
\* with exactly one newline when the highlighter output ends with at most one,
\* and with as many as the output had otherwise. A copy control follows; no
\* class attribute without a language tag, class = escaped tag with one.
C8_FenceBlock ==
    FenceRendered =>
        LET k == TrailingNewlines(Highlighted) IN
        /\ Len(highlightCalls) = 1
        /\ FenceBlock.code
              = (IF k >= 1 THEN SubSeq(Highlighted, 1, Len(Highlighted) - 1)
                 ELSE Highlighted) \o <<"\n">>
        /\ TrailingNewlines(FenceBlock.code) = IF k <= 1 THEN 1 ELSE k
        /\ FenceDecoration

\* a fence tagged c<& whose content ends with an empty line
C8_Witness ==
    /\ FenceRendered
    /\ FenceTag = <<"c","<","&">>
    /\ FenceBlock.class = <<"c","&","l","t",";","&","a","m","p",";">>
    /\ TrailingNewlines(Top.event.originalText[1].content) = 2
    /\ TrailingNewlines(FenceBlock.code) = 2

(* ==================== properties of the parse event ===================== *)
\* what the subscribers other than the MarkedPlugin leave in the text
Mark(n) == Text(<<"+", n>>)[1]
\* the same after parser.render: a text token goes through markdown-it's own rule
RenderedMark(n) == [type |-> "html", of |-> "text", content |-> <<"+", n>>]

\* every call in progress: the subscribers that have run are the first ones
\* registered, in that order, and the text is untouched until one has run
C7_InOrder ==
    \A i \in DOMAIN stack :
        LET f == stack[i] IN
        /\ f.subscribers = listeners
        /\ Len(f.ran) <= Len(listeners)
        /\ f.ran = SubSeq(listeners, 1, Len(f.ran))
        /\ f.next = Len(f.ran) + 1
        /\ f.ran = <<>> => f.event.parsedText = f.event.originalText

\* a call starts with one event on the flattened input (the input itself when it
\* is a string) and parsedText = originalText
C7_Starts ==
    Len(stack') > Len(stack) =>
        LET f == stack'[Len(stack')] IN
        /\ Len(stack') = Len(stack) + 1
        /\ calls' = calls + 1
        /\ f.event.parsedText = f.event.originalText
        /\ f.ran = <<>>
        /\ \E input \in Inputs :
              /\ input.isString = f.isString
              /\ f.event.originalText
                    = IF input.isString THEN input.value
                      ELSE displayPartsToMarkdown(input.value, f.context,
                                                  Truthy(htmlOption))

\* a call returns when every subscriber has run, and returns the text the last
\* one left: with the subscribers other-1, MarkedPlugin, other-2 that is the
\* rendering of (input plus the mark of other-1), plus the raw mark of other-2
C7_Returns ==
    Len(stack') < Len(stack) =>
        LET v == lastReturn'.value IN
        /\ Top.ran = listeners
        /\ v = Top.event.parsedText
        /\ lastReturn'.depth = Len(stack)
        /\ Len(listeners) = 1 => v = Top.out
        /\ Len(listeners) = 3 =>
              /\ v = Top.out \o <<Mark(2)>>
              /\ Top.out[Len(Top.out)] = RenderedMark(1)

\* C7: each parseMarkdown call creates one event with parsedText = originalText
\* = the (flattened) input, dispatches it to all subscribers in registration
\* order, and returns the parsedText the last subscriber left, unchanged
C7_EventDispatchedInOrder ==
    /\ []C7_InOrder
    /\ [][C7_Starts /\ C7_Returns]_vars

\* a call with three subscribers has returned the text the third one left
C7_Witness ==
    /\ lastReturn # NoReturn
    /\ listeners = <<OtherListener(1), MarkedListener, OtherListener(2)>>
    /\ lastReturn.depth = 1
    /\ Len(lastReturn.value) >= 2
    /\ lastReturn.value[Len(lastReturn.value)] = Mark(2)
    /\ lastReturn.value[Len(lastReturn.value) - 1] = RenderedMark(1)

(* =================== properties of the fallback slugger ================= *)
NoGetSluggerWarnings == SelectSeq(warnings, LAMBDA w : w = WarnNoGetSlugger)

\* C9: without a theme getSlugger the fallback Slugger is created at most once,
\* on the first heading rendered and not before, the same instance serves
\* every heading afterwards, and the warning is logged exactly once, with the
\* creation; with a theme getSlugger it is never created and nothing is logged
C9_FallbackOnce ==
    /\ sluggersCreated <= 1
    /\ Len(NoGetSluggerWarnings) = sluggersCreated
    /\ (defaultSlugger = NoSlugger) <=> (sluggersCreated = 0)
    /\ themeHasGetSlugger => sluggersCreated = 0
    /\ ~themeHasGetSlugger =>
          /\ (sluggersCreated = 1) <=> (HeadingOpens # <<>>)
          /\ defaultSlugger # NoSlugger =>
                /\ defaultSlugger.id = 1
                /\ Len(defaultSlugger.issued) = Len(HeadingOpens)
          /\ \A p \in Pages : themeSluggers[p] = <<>>

\* the fallback has served headings of both pages, in two parseMarkdown calls
C9_Witness ==
    /\ ~themeHasGetSlugger
    /\ OpensOn(1) # <<>>
    /\ OpensOn(2) # <<>>
    /\ calls = 2
    /\ sluggersCreated = 1
    /\ Len(warnings) = 1
    /\ Len(defaultSlugger.issued) = Len(OpensOn(1)) + Len(OpensOn(2))

(* ======================= properties of setupParser ====================== *)
\* C10: the loader is called exactly once on each engine constructed, on that
\* engine, before the three overrides are installed: after setupParser
\* heading_open, heading_close and link_open are the component's own rules
\* whatever the loader registered, and the loader's other rules are in place
C10_LoaderOnceThenOverrides ==
    /\ (parser = NoParser) <=> (enginesBuilt = 0)
    /\ parser # NoParser =>
          /\ parser.id = enginesBuilt
          /\ parser.loaderCalls = 1
          /\ parser.registered \in LoaderChoices
          /\ \A r \in OwnRules : parser.rules[r] = "marked"
          /\ \A r \in RuleNames \ OwnRules :
                parser.rules[r] = IF r \in parser.registered THEN "loader" ELSE "default"

\* the loader registered a rule under every name, the overridden ones included,
\* and a heading was then rendered by the component's heading_open
C10_Witness ==
    /\ parser # NoParser
    /\ parser.registered = RuleNames
    /\ HeadingOpens # <<>>
    /\ Len(AnchorsOf(HeadingOpens[1])) = 1
    /\ parser.rules["fence"] = "loader"
    /\ parser.rules["heading_open"] = "marked"
    /\ parser.rules["link_open"] = "marked"

(* ===================== properties of the flattening ==================== *)
\* no raw HTML token and no angle bracket left in any token's text
RawFree(tokens) ==
    \A i \in DOMAIN tokens :
        /\ tokens[i].type # "html_inline"
        /\ "<" \notin Range(tokens[i].content)
        /\ ">" \notin Range(tokens[i].content)

sEscapedI == <<"&","l","t",";","i","&","g","t",";">>

\* C11: rich-text input with markdownItOptions.html falsy (false, undefined, 0)
\* reaches the event flattened with no raw angle-bracket markup left; with a
\* truthy value ('yes' as much as true) the raw HTML is kept as written, so the
\* flag is the truthiness of the option; string input reaches the event as it
\* is, its raw HTML included, under every option
C11_FlattenedByOption ==
    \A i \in DOMAIN stack :
        LET f == stack[i]
            src == f.event.originalText
        IN  /\ f.ran = <<>> => f.event.parsedText = src
            /\ f.isString => src = DocHtml
            /\ (~f.isString /\ htmlOption \in {"undefined", "false", "0"}) =>
                  /\ RawFree(src)
                  /\ Len(src) = Len(DocHtml) + 1
            /\ (~f.isString /\ htmlOption \in {"true", "'yes'"}) =>
                  src = DocHtml \o LinkOpen(<<"/">> \o sFoo)

\* rich text was flattened with the option undefined: <i> arrived as &lt;i&gt;
C11_Witness ==
    /\ stack # <<>>
    /\ ~Top.isString
    /\ htmlOption = "undefined"
    /\ Top.event.originalText[4].type = "text"
    /\ Top.event.originalText[4].content = sEscapedI
    /\ Top.event.originalText[5].type = "link_open"

(* ===================== properties of heading_close ===================== *)
IconsOf(r) == SelectSeq(r.html, LAMBDA e : e.type = "icon")
\* how many headings were opened up to the i-th heading token rendered
OpensUpTo(i) == Cardinality({j \in 1..i : rendered[j].type = "heading_open"})

\* C12: the anchor icon emitted by a heading_close references md: + the slug
\* issued by the heading_open of the same heading: the id of the anchor emitted
\* right before it and the link of the entry that heading added to the page's
\* list, never a bare md: and never another heading's slug, over consecutive
\* headings and successive parseMarkdown calls
C12_IconRefersToOwnHeading ==
    \A i \in DOMAIN rendered :
        rendered[i].type = "heading_close" =>
            /\ i > 1
            /\ rendered[i - 1].type = "heading_open"
            /\ rendered[i - 1].page = rendered[i].page
            /\ Len(IconsOf(rendered[i])) = 1
            /\ LET ref == IconsOf(rendered[i])[1].ref
                   k == OpensUpTo(i)
               IN  /\ AnchorsOf(rendered[i - 1]) = << [type |-> "anchor", id |-> ref] >>
                   /\ pageHeadings[rendered[i].page][HeadingIndex(k)].link = <<"#">> \o ref
                   /\ StartsWith(ref, sMd)
                   /\ ref # sMd
                   /\ \A j \in 1..(k - 1) :
                         HeadingOpens[j].page = rendered[i].page
                            => AnchorsOf(HeadingOpens[j])[1].id # ref

\* 'Title' three times on one page, the third in a second parseMarkdown call:
\* the icons refer to md:title, md:title-1, md:title-2
C12_Witness ==
    /\ calls = 2
    /\ Len(rendered) >= 6
    /\ \A i \in 1..6 : rendered[i].page = rendered[1].page
    /\ rendered[6].type = "heading_close"
    /\ IconsOf(rendered[2])[1].ref = sMd \o Slugs3[1]
    /\ IconsOf(rendered[4])[1].ref = sMd \o Slugs3[2]
    /\ IconsOf(rendered[6])[1].ref = sMd \o Slugs3[3]

(* ============== properties of the fence's highlight call =============== *)
\* the fence that was rendered
FenceToken == Top.event.originalText[1]

\* C13: rendering a fence calls highlight exactly once, with the fence's code
\* and its language tag as written (ts when there is none), and logs nothing,
\* whatever the language: also for one that getHighlighted would refuse with a
\* warning, returning the text
C13_FenceAlwaysHighlights ==
    FenceRendered =>
        /\ highlightCalls
              = << [text |-> FenceToken.content,
                    lang |-> IF FenceToken.info = <<>> THEN sTs ELSE FenceToken.info,
                    by |-> "fence"] >>
        /\ warnings = <<>>

\* a cobol fence was highlighted, while getHighlighted warns and gives cobol back
C13_Witness ==
    /\ FenceRendered
    /\ FenceToken.info = sCobol
    /\ FenceToken.content = <<"x", "\n">>
    /\ Len(highlightCalls) = 1
    /\ highlightCalls[1].lang = sCobol
    /\ getHighlighted(FenceToken.content, sCobol).result = FenceToken.content
    /\ Len(getHighlighted(FenceToken.content, sCobol).warn) = 1

(* =================== properties of the render context ================== *)
\* C14: while a parseMarkdown call is in progress the stored render context is
\* the context argument of that call, for the whole dispatch of its event, so
\* every heading_close rendered in the call hands that context to the anchor
\* icon; it is null whenever no call is in progress; this for any sequence of
\* calls, a call made re-entrantly by a subscriber included
C14_ContextOfCallInProgress ==
    /\ stack = <<>> => renderContext = NoContext
    /\ stack # <<>> => renderContext = Top.context
    /\ \A i \in DOMAIN rendered :
          rendered[i].type = "heading_close" =>
              \A j \in DOMAIN rendered[i].html :
                  rendered[i].html[j].type = "icon"
                     => rendered[i].html[j].ctx = ContextOf(rendered[i].arg)

(* ================= properties of the page a call is given ============== *)
\* the headings rendered in calls that were given page p
OpensGiven(p) == SelectSeq(HeadingOpens, LAMBDA r : r.arg = p)

\* C15: every heading entry produced during parseMarkdown(input, page, context)
\* is appended to the heading list of the page given as argument, with a slug
\* from that page's Slugger, and no other page's list changes: a page's list
\* and its Slugger hold exactly the headings of the calls given that page
C15_HeadingsOnGivenPage ==
    \A p \in Pages :
        /\ Len(pageHeadings[p]) = Len(OpensGiven(p))
        /\ themeHasGetSlugger => Len(themeSluggers[p]) = Len(OpensGiven(p))
        /\ \A k \in DOMAIN OpensGiven(p) :
              /\ k <= Len(pageHeadings[p])
              /\ pageHeadings[p][k].text = GetTextContent(OpensGiven(p)[k].content)

====
